---- MODULE Spec2Model ----
\* Model of src-tauri/src/lib.rs: the run() entry point of the Test-Pilot
\* desktop shell.  run() builds the log plugin, attaches the HTTP and log
\* plugins to a tauri::Builder, installs a setup closure and calls
\* Builder::run(), whose Result is unwrapped with expect().
\*
\* The tauri shell and the two plugins are external crates.  Their part of
\* Builder::run() is modelled by what the call on line 22 does with the values
\* run() hands over: it initializes the registered plugins in registration
\* order (each may fail), assembles the shell (may fail), calls the setup
\* closure once, services events, and returns Ok or Err.
EXTENDS Integers, Sequences, FiniteSets, TLC

\* ---------------------------------------------------------------- bounds
MaxEvents == 3

\* ------------------------------------------------------------- constants
\* log::LevelFilter, ordered Off < Error < Warn < Info < Debug < Trace
LevelFilter == {"Off", "Error", "Warn", "Info", "Debug", "Trace"}

Rank == [l \in LevelFilter |->
           CASE l = "Off"   -> 0
             [] l = "Error" -> 1
             [] l = "Warn"  -> 2
             [] l = "Info"  -> 3
             [] l = "Debug" -> 4
             [] l = "Trace" -> 5]

RUST_LOG_VALUE == "tauri=debug,tauri_plugin_http=debug"

StartedMsg == "Test-Pilot application started with HTTP logging enabled"

HintMsg == "Set RUST_LOG=tauri=debug,tauri_plugin_http=debug for HTTP request logging"

ExpectMsg == "error while running tauri application"

\* Values RUST_LOG may hold when the process starts ("<unset>" = absent).
StartEnv == {"<unset>", "info", RUST_LOG_VALUE}

VARIABLES
  pc,            \* position of the main thread in run()
  env0,          \* RUST_LOG at process start
  env,           \* RUST_LOG now
  envWrites,     \* number of set_var calls performed
  defaultLevel,  \* level of tauri_plugin_log::Builder::default()
  log_plugin,    \* the local `log_plugin` (its level), "none" before line 4
  plugins,       \* plugins registered on the tauri::Builder, in order
  setup,         \* the builder's setup callback: "default" or "hook"
  initIdx,       \* number of registered plugins already initialized by run()
  maxLevel,      \* level of the installed global logger, "Off" = no logger
  logs,          \* records delivered to the log sink
  hookCount,     \* number of times the setup closure was entered
  hookResult,    \* value returned by the setup closure, "none" before
  events,        \* external events accepted by the run loop
  reads,         \* reads of RUST_LOG made by plugins / subsystems
  runResult,     \* Result of Builder::run(): "none", "Ok", "Err"
  failure,       \* cause of an Err result
  panicMsg,      \* message of the panic raised by expect(), "" if none
  trace          \* milestones of the run, in order of occurrence

vars == <<pc, env0, env, envWrites, defaultLevel, log_plugin, plugins, setup,
          initIdx, maxLevel, logs, hookCount, hookResult, events, reads,
          runResult, failure, panicMsg, trace>>

\* ------------------------------------------------------------- helpers

\* tauri_plugin_log::Builder::default().level(Debug).build(): the plugin
\* produced from a builder whose default level is d.
LogPluginNoLevel(d) == [name |-> "log", level |-> d]

LogPluginBuild(d) == [name |-> "log", level |-> "Debug"]

\* log::info!(msg) and friends: the record reaches the sink iff a logger is
\* installed and the record's level is within the logger's level filter.
Enabled(lvl, floor) == Rank[lvl] >= 1 /\ Rank[lvl] <= Rank[floor]

Emit(sink, floor, lvl, msg) ==
  IF Enabled(lvl, floor) THEN Append(sink, [level |-> lvl, msg |-> msg])
                         ELSE sink

LogInfo(sink, floor, msg) == Emit(sink, floor, "Info", msg)

InfoCount == Cardinality({i \in 1..Len(logs) : logs[i].level = "Info"})

Read(who, phase) == [who |-> who, phase |-> phase, value |-> env]

\* ---------------------------------------------------------------- Init
Init ==
  /\ pc = "start"
  /\ env0 \in StartEnv
  /\ env = env0
  /\ envWrites = 0
  /\ defaultLevel \in LevelFilter
  /\ log_plugin = "none"
  /\ plugins = <<>>
  /\ setup = "default"
  /\ initIdx = 0
  /\ maxLevel = "Off"
  /\ logs = <<>>
  /\ hookCount = 0
  /\ hookResult = "none"
  /\ events = 0
  /\ reads = {}
  /\ runResult = "none"
  /\ failure = "none"
  /\ panicMsg = ""
  /\ trace = <<>>

\* ------------------------------------------------------------- run()

\* lines 4-6: let log_plugin = Builder::default().level(Debug).build();
BuildLogPlugin ==
  /\ pc = "start"
  /\ log_plugin' = LogPluginBuild(defaultLevel).level
  /\ pc' = "builder"
  /\ UNCHANGED <<env0, env, envWrites, defaultLevel, plugins, setup, initIdx,
                 maxLevel, logs, hookCount, hookResult, events, reads,
                 runResult, failure, panicMsg, trace>>

\* line 8: tauri::Builder::default()
BuilderDefault ==
  /\ pc = "builder"
  /\ plugins' = <<>>
  /\ setup' = "default"
  /\ pc' = "plugin_http"
  /\ UNCHANGED <<env0, env, envWrites, defaultLevel, log_plugin, initIdx,
                 maxLevel, logs, hookCount, hookResult, events, reads,
                 runResult, failure, panicMsg, trace>>

\* line 10: .plugin(tauri_plugin_http::init()); constructing the plugin may
\* consult RUST_LOG.
AttachHttp ==
  /\ pc = "plugin_http"
  /\ \E doesRead \in BOOLEAN :
       reads' = IF doesRead THEN reads \cup {Read("http", "init")} ELSE reads
  /\ plugins' = Append(plugins, [name |-> "http", level |-> "none"])
  /\ trace' = Append(trace, "http")
  /\ pc' = "plugin_log"
  /\ UNCHANGED <<env0, env, envWrites, defaultLevel, log_plugin, setup,
                 initIdx, maxLevel, logs, hookCount, hookResult, events,
                 runResult, failure, panicMsg>>

\* line 12: .plugin(log_plugin)
AttachLogSkipped ==
  /\ pc = "plugin_log"
  /\ pc' = "setup"
  /\ UNCHANGED <<env0, env, envWrites, defaultLevel, log_plugin, plugins,
                 setup, initIdx, maxLevel, logs, hookCount, hookResult, events,
                 reads, runResult, failure, panicMsg, trace>>

AttachLog ==
  /\ pc = "plugin_log"
  /\ plugins' = Append(plugins, [name |-> "log", level |-> log_plugin])
  /\ trace' = Append(trace, "log")
  /\ pc' = "setup"
  /\ UNCHANGED <<env0, env, envWrites, defaultLevel, log_plugin, setup,
                 initIdx, maxLevel, logs, hookCount, hookResult, events, reads,
                 runResult, failure, panicMsg>>

\* line 13: .setup(|_app| { ... }) stores the closure in the builder
InstallSetupWritesEnv ==
  /\ pc = "setup"
  /\ setup' = "hook"
  /\ env' = RUST_LOG_VALUE
  /\ envWrites' = envWrites + 1
  /\ pc' = "run"
  /\ UNCHANGED <<env0, defaultLevel, log_plugin, plugins, initIdx, maxLevel,
                 logs, hookCount, hookResult, events, reads, runResult,
                 failure, panicMsg, trace>>

InstallSetup ==
  /\ pc = "setup"
  /\ setup' = "hook"
  /\ pc' = "run"
  /\ UNCHANGED <<env0, env, envWrites, defaultLevel, log_plugin, plugins,
                 initIdx, maxLevel, logs, hookCount, hookResult, events, reads,
                 runResult, failure, panicMsg, trace>>

\* line 22: .run(context) is entered; the shell starts from the builder
RunEnter ==
  /\ pc = "run"
  /\ initIdx' = 0
  /\ pc' = "init_plugins"
  /\ UNCHANGED <<env0, env, envWrites, defaultLevel, log_plugin, plugins,
                 setup, maxLevel, logs, hookCount, hookResult, events, reads,
                 runResult, failure, panicMsg, trace>>

\* line 22: run() initializes the next registered plugin.  Initialization may
\* read RUST_LOG and may fail; a failure makes run() return Err.  The log
\* plugin installs the global logger with the level it was built with.
InitPlugin ==
  /\ pc = "init_plugins"
  /\ initIdx < Len(plugins)
  /\ LET p == plugins[initIdx + 1] IN
     \E doesRead \in BOOLEAN, ok \in BOOLEAN :
       /\ reads' = IF doesRead THEN reads \cup {Read(p.name, "init")}
                               ELSE reads
       /\ IF ok
            THEN /\ initIdx' = initIdx + 1
                 /\ maxLevel' = IF p.name = "log" THEN p.level ELSE maxLevel
                 /\ pc' = pc
                 /\ UNCHANGED <<runResult, failure>>
            ELSE /\ runResult' = "Err"
                 /\ failure' = "capability"
                 /\ pc' = "run_returned"
                 /\ UNCHANGED <<initIdx, maxLevel>>
  /\ UNCHANGED <<env0, env, envWrites, defaultLevel, log_plugin, plugins,
                 setup, logs, hookCount, hookResult, events, panicMsg, trace>>

\* line 22: run() assembles the shell once every plugin is initialized
BuildShell ==
  /\ pc = "init_plugins"
  /\ initIdx = Len(plugins)
  /\ \E ok \in BOOLEAN :
       IF ok
         THEN /\ pc' = "ready"
              /\ UNCHANGED <<runResult, failure>>
         ELSE /\ runResult' = "Err"
              /\ failure' = "shell"
              /\ pc' = "run_returned"
  /\ UNCHANGED <<env0, env, envWrites, defaultLevel, log_plugin, plugins,
                 setup, initIdx, maxLevel, logs, hookCount, hookResult, events,
                 reads, panicMsg, trace>>

\* lines 13/22: the shell takes the stored callback and calls it
SetupBegin ==
  /\ pc = "ready"
  /\ setup = "hook"
  /\ setup' = "default"
  /\ hookCount' = hookCount + 1
  /\ trace' = Append(trace, "hook_start")
  /\ pc' = "hook_setenv"
  /\ UNCHANGED <<env0, env, envWrites, defaultLevel, log_plugin, plugins,
                 initIdx, maxLevel, logs, hookResult, events, reads, runResult,
                 failure, panicMsg>>

\* line 15: std::env::set_var("RUST_LOG", "tauri=debug,tauri_plugin_http=debug")
HookSetEnvOmitted ==
  /\ pc = "hook_setenv"
  /\ pc' = "hook_info1"
  /\ UNCHANGED <<env0, env, envWrites, defaultLevel, log_plugin, plugins,
                 setup, initIdx, maxLevel, logs, hookCount, hookResult, events,
                 reads, runResult, failure, panicMsg, trace>>

HookSetEnvAppends ==
  /\ pc = "hook_setenv"
  /\ env' = IF env = "<unset>" THEN RUST_LOG_VALUE ELSE "info,tauri=debug"
  /\ envWrites' = envWrites + 1
  /\ pc' = "hook_info1"
  /\ UNCHANGED <<env0, defaultLevel, log_plugin, plugins, setup, initIdx,
                 maxLevel, logs, hookCount, hookResult, events, reads,
                 runResult, failure, panicMsg, trace>>

HookSetEnv ==
  /\ pc = "hook_setenv"
  /\ env' = RUST_LOG_VALUE
  /\ envWrites' = envWrites + 1
  /\ pc' = "hook_info1"
  /\ UNCHANGED <<env0, defaultLevel, log_plugin, plugins, setup, initIdx,
                 maxLevel, logs, hookCount, hookResult, events, reads,
                 runResult, failure, panicMsg, trace>>

\* line 17: log::info!("Test-Pilot application started ...")
HookInfoStartedWrongText ==
  /\ pc = "hook_info1"
  /\ logs' = LogInfo(logs, maxLevel, HintMsg)
  /\ pc' = "hook_info2"
  /\ UNCHANGED <<env0, env, envWrites, defaultLevel, log_plugin, plugins,
                 setup, initIdx, maxLevel, hookCount, hookResult, events,
                 reads, runResult, failure, panicMsg, trace>>

HookInfoStarted ==
  /\ pc = "hook_info1"
  /\ logs' = LogInfo(logs, maxLevel, StartedMsg)
  /\ pc' = "hook_info2"
  /\ UNCHANGED <<env0, env, envWrites, defaultLevel, log_plugin, plugins,
                 setup, initIdx, maxLevel, hookCount, hookResult, events,
                 reads, runResult, failure, panicMsg, trace>>

\* line 18: log::info!("Set RUST_LOG=... for HTTP request logging")
HookInfoHintOmitted ==
  /\ pc = "hook_info2"
  /\ pc' = "hook_ok"
  /\ UNCHANGED <<env0, env, envWrites, defaultLevel, log_plugin, plugins,
                 setup, initIdx, maxLevel, logs, hookCount, hookResult, events,
                 reads, runResult, failure, panicMsg, trace>>

HookInfoHint ==
  /\ pc = "hook_info2"
  /\ logs' = LogInfo(logs, maxLevel, HintMsg)
  /\ pc' = "hook_ok"
  /\ UNCHANGED <<env0, env, envWrites, defaultLevel, log_plugin, plugins,
                 setup, initIdx, maxLevel, hookCount, hookResult, events,
                 reads, runResult, failure, panicMsg, trace>>

\* line 20: Ok(()) -- the closure returns and the shell enters its loop
HookReturnRearmed ==
  /\ pc = "hook_ok"
  /\ hookResult' = "Ok"
  /\ setup' = "hook"
  /\ trace' = Append(trace, "hook_done")
  /\ pc' = "ready"
  /\ UNCHANGED <<env0, env, envWrites, defaultLevel, log_plugin, plugins,
                 initIdx, maxLevel, logs, hookCount, events, reads, runResult,
                 failure, panicMsg>>

HookReturn ==
  /\ pc = "hook_ok"
  /\ hookResult' = "Ok"
  /\ trace' = Append(trace, "hook_done")
  /\ pc' = "loop"
  /\ UNCHANGED <<env0, env, envWrites, defaultLevel, log_plugin, plugins,
                 setup, initIdx, maxLevel, logs, hookCount, events, reads,
                 runResult, failure, panicMsg>>

\* line 22: the run loop accepts an external event
AcceptEvent ==
  /\ pc = "loop"
  /\ events < MaxEvents
  /\ events' = events + 1
  /\ trace' = Append(trace, "event")
  /\ UNCHANGED <<pc, env0, env, envWrites, defaultLevel, log_plugin, plugins,
                 setup, initIdx, maxLevel, logs, hookCount, hookResult, reads,
                 runResult, failure, panicMsg>>

\* line 22: while the loop runs, a subsystem reads RUST_LOG
SubsystemRead ==
  /\ pc = "loop"
  /\ \E who \in {"http", "log", "shell"} :
       reads' = reads \cup {Read(who, "loop")}
  /\ UNCHANGED <<pc, env0, env, envWrites, defaultLevel, log_plugin, plugins,
                 setup, initIdx, maxLevel, logs, hookCount, hookResult, events,
                 runResult, failure, panicMsg, trace>>

\* line 22: the run loop ends, with a fatal error or by shutdown
RunLoopEnd ==
  /\ pc = "loop"
  /\ \E ok \in BOOLEAN :
       /\ runResult' = IF ok THEN "Ok" ELSE "Err"
       /\ failure' = IF ok THEN failure ELSE "runloop"
  /\ pc' = "run_returned"
  /\ UNCHANGED <<env0, env, envWrites, defaultLevel, log_plugin, plugins,
                 setup, initIdx, maxLevel, logs, hookCount, hookResult, events,
                 reads, panicMsg, trace>>

\* line 23: .expect("error while running tauri application")
ExpectIgnoresErr ==
  /\ pc = "run_returned"
  /\ pc' = "returned"
  /\ UNCHANGED <<env0, env, envWrites, defaultLevel, log_plugin, plugins,
                 setup, initIdx, maxLevel, logs, hookCount, hookResult, events,
                 reads, runResult, failure, panicMsg, trace>>

ExpectRetries ==
  /\ pc = "run_returned"
  /\ IF runResult = "Err"
       THEN /\ pc' = "run"
            /\ UNCHANGED panicMsg
       ELSE /\ pc' = "returned"
            /\ UNCHANGED panicMsg
  /\ UNCHANGED <<env0, env, envWrites, defaultLevel, log_plugin, plugins,
                 setup, initIdx, maxLevel, logs, hookCount, hookResult, events,
                 reads, runResult, failure, trace>>

Expect ==
  /\ pc = "run_returned"
  /\ IF runResult = "Err"
       THEN /\ pc' = "panicked"
            /\ panicMsg' = ExpectMsg
       ELSE /\ pc' = "returned"
            /\ UNCHANGED panicMsg
  /\ UNCHANGED <<env0, env, envWrites, defaultLevel, log_plugin, plugins,
                 setup, initIdx, maxLevel, logs, hookCount, hookResult, events,
                 reads, runResult, failure, trace>>

Next ==
  \/ BuildLogPlugin
  \/ BuilderDefault
  \/ AttachHttp
  \/ AttachLog
  \/ InstallSetup
  \/ RunEnter
  \/ InitPlugin
  \/ BuildShell
  \/ SetupBegin
  \/ HookSetEnv
  \/ HookInfoStarted
  \/ HookInfoHint
  \/ HookReturn
  \/ AcceptEvent
  \/ SubsystemRead
  \/ RunLoopEnd
  \/ Expect

Spec == Init /\ [][Next]_vars

\* ------------------------------------------------------- derived notions

\* The run loop was entered: it is running, has accepted an event, or has
\* ended (by shutdown or by its own fatal error).
ReachedLoop ==
  pc = "loop" \/ events > 0 \/ failure = "runloop" \/ runResult = "Ok"

HookCompleted == hookResult # "none"

Positions(e) == {i \in 1..Len(trace) : trace[i] = e}

Before(a, b) == \A i \in Positions(a), j \in Positions(b) : i < j

Once(e) == Cardinality(Positions(e)) = 1

InfoRecord(msg) == [level |-> "Info", msg |-> msg]

IsPrefix(s, t) == Len(s) <= Len(t) /\ \A i \in 1..Len(s) : s[i] = t[i]

\* -------------------------------------------------------------- claims

\* C1: startup milestones occur in the strict order HTTP plugin attached,
\* log plugin attached, setup hook entered, setup hook completed, first
\* external event accepted; the hook is never entered unless both plugins are
\* attached (HTTP first), and no event is accepted before the hook completed.
C1_StartupOrder ==
  /\ Before("http", "log")
  /\ Before("log", "hook_start")
  /\ Before("hook_start", "hook_done")
  /\ Before("hook_done", "event")
  /\ Positions("hook_start") # {} =>
       /\ Once("http") /\ Once("log")
       /\ Len(plugins) = 2
       /\ plugins[1].name = "http" /\ plugins[2].name = "log"
  /\ Positions("event") # {} => Once("hook_start") /\ Once("hook_done")
  /\ events > 0 => HookCompleted

C1_Witness ==
  /\ pc = "loop"
  /\ events >= 1
  /\ trace[1] = "http" /\ trace[2] = "log"
  /\ trace[3] = "hook_start" /\ trace[4] = "hook_done"
  /\ trace[5] = "event"

\* C2: the setup hook is entered at most once in any state, and exactly once
\* in every run that reached the run loop, however many events were accepted.
C2_HookOnce ==
  /\ hookCount <= 1
  /\ ReachedLoop => hookCount = 1

C2_Witness == pc = "loop" /\ events >= 2 /\ hookCount = 1

\* C3: once the setup hook has completed, RUST_LOG holds exactly
\* "tauri=debug,tauri_plugin_http=debug", whatever it held at process start.
C3_EnvValue == HookCompleted => env = RUST_LOG_VALUE

C3_Witness ==
  /\ HookCompleted
  /\ env0 = "info"
  /\ env = "tauri=debug,tauri_plugin_http=debug"

\* C4: a run that reached the run loop has emitted exactly two records, both
\* Info, both before the loop accepted anything; the count never exceeds two
\* and stays two during the loop; Info passes the installed Debug floor.
C4_TwoInfoRecords ==
  /\ InfoCount <= 2
  /\ Len(logs) = InfoCount
  /\ ReachedLoop => InfoCount = 2
  /\ InfoCount < 2 => events = 0
  /\ pc \in {"hook_info1", "hook_info2"} =>
       maxLevel = "Debug" /\ Enabled("Info", maxLevel)

C4_Witness == pc = "loop" /\ events >= 1 /\ InfoCount = 2 /\ reads # {}

\* C5: when a plugin fails to initialize, the run ends in the expect() panic
\* with its message, and the setup hook never ran: hook count 0, RUST_LOG
\* never written, no record emitted, no event accepted.
C5_CapabilityFailureFatal ==
  failure = "capability" =>
    /\ runResult = "Err"
    /\ pc \in {"run_returned", "panicked"}
    /\ pc = "panicked" => panicMsg = ExpectMsg
    /\ hookCount = 0 /\ hookResult = "none"
    /\ envWrites = 0 /\ env = env0
    /\ logs = <<>>
    /\ events = 0
    /\ ~ReachedLoop

C5_Witness ==
  /\ failure = "capability"
  /\ pc = "panicked"
  /\ initIdx = 1
  /\ env0 = "<unset>"

\* C6: when Builder::run() returns Err, the only step run() takes is the
\* panic with message "error while running tauri application", which changes
\* nothing else; after the panic no step is taken at all.
C6_NoRetry ==
  /\ [](pc = "panicked" => panicMsg = ExpectMsg /\ runResult = "Err")
  /\ [][pc = "run_returned" /\ runResult = "Err" =>
          /\ pc' = "panicked"
          /\ panicMsg' = ExpectMsg
          /\ UNCHANGED <<plugins, setup, initIdx, hookCount, events, env,
                         envWrites, logs, trace, runResult>>]_vars
  /\ [][pc # "panicked"]_vars

C6_Witness ==
  /\ pc = "panicked"
  /\ failure = "runloop"
  /\ hookCount = 1
  /\ events >= 1

C8_SingleWriter ==
  /\ [](/\ envWrites <= 1
        /\ envWrites = 0 => env = env0
        /\ hookCount = 0 => envWrites = 0
        /\ HookCompleted => envWrites = 1)
  /\ [][env' # env \/ envWrites' # envWrites => pc = "hook_setenv"]_vars
  /\ [][HookCompleted => env' = env]_vars

C8_Witness ==
  /\ pc = "loop"
  /\ events >= 1
  /\ envWrites = 1
  /\ env0 = "<unset>"
  /\ env # env0

\* C9: inside the hook the env write comes first, then the started record,
\* then the hint record, then Ok: any emitted record finds RUST_LOG at its
\* final value, the records appear in that order, and the hook never returns
\* an error.
C9_HookStepOrder ==
  /\ logs # <<>> => env = RUST_LOG_VALUE /\ envWrites = 1
  /\ IsPrefix(logs, <<InfoRecord(StartedMsg), InfoRecord(HintMsg)>>)
  /\ hookResult \in {"none", "Ok"}
  /\ HookCompleted => Len(logs) = 2
  /\ failure \in {"none", "capability", "shell", "runloop"}

C9_Witness ==
  /\ pc = "hook_info2"
  /\ Len(logs) = 1
  /\ env0 = "info"
  /\ env = RUST_LOG_VALUE

\* C10: every read of RUST_LOG made once the run loop is running sees the
\* hook's value, while a read made by a plugin during its construction or
\* initialization precedes the hook's write and sees the process-start value.
C10_ReadOrdering ==
  \A r \in reads :
    /\ r.phase = "loop" => r.value = RUST_LOG_VALUE
    /\ r.phase = "init" => r.value = env0 /\ r.who \in {"http", "log"}

C10_Witness ==
  /\ \E r \in reads :
       r.phase = "init" /\ r.who = "http" /\ r.value = "<unset>"
  /\ \E r \in reads :
       r.phase = "loop" /\ r.who = "http" /\ r.value = RUST_LOG_VALUE

====
